---- MODULE Spec2Model ----
(***************************************************************************)
(* PRIME CVD Risk Calculator (prime_cvd_app.py): the calculation engine    *)
(* and the Streamlit script that drives it.                                *)
(*                                                                         *)
(* Numbers.  The program computes in binary floating point; the model      *)
(* computes in decimal fixed point, with these units:                      *)
(*   total_chol, hdl, ldl, crp, target_ldl   tenths (the widgets' step)    *)
(*   reductions (LDL_THERAPIES, total_reduction)   tenths of a percent     *)
(*   projected_ldl, final_ldl                 1/10000 mmol/L               *)
(*   baseline_risk                            tenths of a percent          *)
(*   final_risk                               1/10^7 percent               *)
(*   crp_log, math.exp, **                   1/10^7 (Scale)               *)
(* The treatment arithmetic is exact in these units.  math.log, math.exp   *)
(* and ** are series evaluated to about seven decimals, which decides the  *)
(* one-decimal result of calculate_smart_risk except within about 10^-6    *)
(* of a rounding boundary.                                                 *)
(*                                                                         *)
(* Python values that may be None or of the wrong type are records         *)
(* [type, val].                                                            *)
(***************************************************************************)
EXTENDS Integers, Sequences, FiniteSets, TLC

VARIABLES
    LDL_THERAPIES,      \* the catalog dict (module global)
    age, sex, diabetes, smoker, cad, stroke, pad,
    total_chol, hdl, ldl, sbp, egfr, crp,          \* sidebar widgets
    pre_statin, discharge_statin, discharge_add_ons, target_ldl,
    trigger,            \* the button whose click caused this run, if any
    name_input,         \* text the browser holds for "Patient Name for Report"
    baseline_risk, calc_button, projected_ldl, total_reduction, final_risk,
    recommendations, patient_name, pdf_button, pdf_bytes,
    rendered,           \* the widgets this run put on the page
    calls,              \* the engine functions this run called, in order
    call                \* the last direct call of an engine function

widgets == <<age, sex, diabetes, smoker, cad, stroke, pad, total_chol, hdl, ldl,
             sbp, egfr, crp, pre_statin, discharge_statin, discharge_add_ons,
             target_ldl>>
run == <<trigger, name_input, baseline_risk, calc_button, projected_ldl,
         total_reduction, final_risk, recommendations, patient_name, pdf_button,
         pdf_bytes, rendered, calls>>
vars == <<LDL_THERAPIES, widgets, run, call>>

----------------------------------------------------------------------------
(* Python values *)

None == [type |-> "NoneType", val |-> 0]
Float(v) == [type |-> "float", val |-> v]
Str(s) == [type |-> "str", val |-> s]
IsNumber(x) == x.type = "float"
\* mutant: the guard of line 129 lets every baseline through
Truthy_always(x) == TRUE

\* truth value of a Python object, as `if baseline_risk:` takes it
Truthy(x) ==
    CASE x.type = "NoneType" -> FALSE
      [] x.type = "float" -> x.val # 0
      [] x.type = "str" -> x.val # ""

----------------------------------------------------------------------------
(* Fixed-point arithmetic *)

Scale == 10 * 1000 * 1000

\* a * b / Scale for a, b >= 0, by partial products that fit 32 bits
MulFix(a, b) ==
    LET ah == a \div 10000
        al == a % 10000
        bh == b \div 1000
        bl == b % 1000
    IN  ah * bh + (ah * bl + (al * bh + (al * bl) \div 1000) \div 10) \div 1000

Max(a, b) == IF a >= b THEN a ELSE b
Min(a, b) == IF a <= b THEN a ELSE b

\* ln 2
LN2 == 6931472

\* n/d = m * 2^k with 1 <= m < 2: <<numerator, denominator, k>>
RECURSIVE LogRange(_, _, _)
LogRange(n, d, k) ==
    IF n >= 2 * d THEN LogRange(n, 2 * d, k + 1)
    ELSE IF n < d THEN LogRange(2 * n, d, k - 1)
    ELSE <<n, d, k>>

\* 1/q + z2/(q+2) + z2^2/(q+4) + ... up to the term in 1/15
RECURSIVE AtanhSeries(_, _)
AtanhSeries(z2, q) ==
    Scale \div q + (IF q >= 15 THEN 0 ELSE MulFix(z2, AtanhSeries(z2, q + 2)))

\* math.log(n/d) for n, d > 0: k ln 2 + 2 atanh((m - 1)/(m + 1))
math_log(n, d) ==
    LET r == LogRange(n, d, 0)
        z == ((r[1] - r[2]) * Scale) \div (r[1] + r[2])
    IN  r[3] * LN2 + 2 * MulFix(z, AtanhSeries(MulFix(z, z), 1))

\* 1 + r/q (1 + r/(q+1) (1 + ...)), thirteen terms
RECURSIVE ExpSeries(_, _)
ExpSeries(r, q) ==
    IF q > 13 THEN Scale ELSE Scale + MulFix(r, ExpSeries(r, q + 1)) \div q

\* math.exp(x): 2^n * e^r with x = n ln 2 + r.  Above e^5 the result
\* saturates (0.900 ** y is then below 10^-7), below e^-20 it is 0.
math_exp(x) ==
    LET xs == Min(x, 5 * Scale)
        n == xs \div LN2
        e == ExpSeries(xs - n * LN2, 1)
    IN  IF xs < -20 * Scale THEN 0
        ELSE IF n >= 0 THEN e * 2^n ELSE e \div 2^(-n)

\* -ln 0.900
NegLn0900 == 1053605

\* 0.900 ** y for y >= 0
Pow0900(y) == math_exp(-MulFix(y, NegLn0900))

\* round(risk10 * 100, 1), in tenths: nearest, ties to even
Round1(risk10) ==
    LET q == risk10 \div 10000
        rem == risk10 % 10000
    IN  IF rem > 5000 \/ (rem = 5000 /\ q % 2 = 1) THEN q + 1 ELSE q

----------------------------------------------------------------------------
(* Calculation functions *)

\* mutant: HDL enters the linear predictor with the sign of total cholesterol
LinearPredictor_hdl_added(a, s, bp, tc, h, sm, dm, gfr, vc) ==
    LET sex_val == IF s = "Male" THEN 1 ELSE 0
        smoking_val == IF sm THEN 1 ELSE 0
        diabetes_val == IF dm THEN 1 ELSE 0
    IN  64 * a + 340 * sex_val + 20 * bp + 25 * tc + 25 * h
        + 440 * smoking_val + 510 * diabetes_val - 20 * gfr + 400 * vc

\* lines 28-34 without the hs-CRP term, in thousandths: every other term
\* is a whole number of thousandths
LinearPredictor(a, s, bp, tc, h, sm, dm, gfr, vc) ==
    LET sex_val == IF s = "Male" THEN 1 ELSE 0
        smoking_val == IF sm THEN 1 ELSE 0
        diabetes_val == IF dm THEN 1 ELSE 0
    IN  64 * a + 340 * sex_val + 20 * bp + 25 * tc - 25 * h
        + 440 * smoking_val + 510 * diabetes_val - 20 * gfr + 400 * vc

\* math.exp raises OverflowError above 709.782712893 (compared in 1/10^6)
ExpOverflows(lp, crp_term) ==
    (lp - 5800) * 1000 + crp_term \div 10 > 709782712

\* lp - 5.8 in 1/Scale; the thousandths are cut to -30..6, outside of
\* which math_exp is 0 or saturated
ExpArgument(lp, crp_term) ==
    Max(-30000, Min(lp - 5800, 6000)) * 10000 + crp_term

\* mutant: line 36 without max(1.0, min(99.0, ...))
calculate_smart_risk_unclamped(a, s, bp, tc, h, sm, dm, gfr, c, vc) ==
    IF c + 10 <= 0 THEN [type |-> "NoneType", val |-> 0]
    ELSE LET crp_log == math_log(c + 10, 10)
             lp == 64 * a + 340 * (IF s = "Male" THEN 1 ELSE 0) + 20 * bp
                   + 25 * tc - 25 * h + 440 * (IF sm THEN 1 ELSE 0)
                   + 510 * (IF dm THEN 1 ELSE 0) - 20 * gfr + 400 * vc
         IN  IF (lp - 5800) * 1000 + crp_log \div 40 > 709782712
             THEN [type |-> "NoneType", val |-> 0]
             ELSE [type |-> "float",
                   val |-> Round1(Scale - Pow0900(math_exp(
                               Max(-30000, Min(lp - 5800, 6000)) * 10000
                               + crp_log \div 4)))]

\* lines 26-39, the result in tenths of a percent
calculate_smart_risk(a, s, bp, tc, h, sm, dm, gfr, c, vc) ==
    IF c + 10 <= 0 THEN None                       \* math.log: ValueError
    ELSE LET crp_log == math_log(c + 10, 10)
             lp == LinearPredictor(a, s, bp, tc, h, sm, dm, gfr, vc)
         IN  IF ExpOverflows(lp, crp_log \div 4) THEN None
             ELSE LET risk10 ==
                          Scale - Pow0900(math_exp(ExpArgument(lp, crp_log \div 4)))
                  IN  Float(Max(10, Min(990, Round1(risk10))))

\* mutant: line 44 without min(..., 60)
calculate_ldl_effect_uncapped(risk, baseline_ldl, final_ldl) ==
    IF IsNumber(risk) /\ IsNumber(baseline_ldl) /\ IsNumber(final_ldl)
    THEN Float(risk.val * (1000000 - 22 * (baseline_ldl.val - final_ldl.val)))
    ELSE IF IsNumber(risk) THEN Float(risk.val * 1000000) ELSE risk

\* mutant: lines 43-45 without the try/except around them
calculate_ldl_effect_unguarded(risk, baseline_ldl, final_ldl) ==
    IF IsNumber(risk) /\ IsNumber(baseline_ldl) /\ IsNumber(final_ldl)
    THEN Float(risk.val
               * (1000000 - Min(22 * (baseline_ldl.val - final_ldl.val), 600000)))
    ELSE [type |-> "exception", val |-> "TypeError"]

\* lines 41-48; both LDL arguments in 1/10000 mmol/L.  Any operand that is
\* not a number raises TypeError, which the except clause turns into the
\* baseline_risk argument (the same number, in the unit of the result).
calculate_ldl_effect(risk, baseline_ldl, final_ldl) ==
    IF IsNumber(risk) /\ IsNumber(baseline_ldl) /\ IsNumber(final_ldl)
    THEN LET ldl_reduction == baseline_ldl.val - final_ldl.val
             rrr == Min(22 * ldl_reduction, 600000)
         IN  Float(risk.val * (1000000 - rrr))
    ELSE IF IsNumber(risk) THEN Float(risk.val * 1000000) ELSE risk

\* mutant: an unknown therapy gets the reduction of the weakest statin
TherapyReduction_default(catalog, id) ==
    IF id \in DOMAIN catalog THEN catalog[id].reduction
    ELSE catalog["Atorvastatin 20 mg"].reduction

\* LDL_THERAPIES.get(discharge_statin, {}).get("reduction", 0)
TherapyReduction(catalog, id) ==
    IF id \in DOMAIN catalog THEN catalog[id].reduction ELSE 0

\* mutant: the halving of line 53 comes after the add-ons
calculate_ldl_reduction_halved_late(current_ldl, pre, discharge, add_ons) ==
    LET summed ==
            (IF discharge \in DOMAIN LDL_THERAPIES
             THEN LDL_THERAPIES[discharge].reduction ELSE 0)
            + (IF "Ezetimibe" \in add_ons THEN 200 ELSE 0)
            + (IF "PCSK9 inhibitor" \in add_ons THEN 600 ELSE 0)
            + (IF "Inclisiran" \in add_ons THEN 500 ELSE 0)
        total == IF pre # "None" THEN summed \div 2 ELSE summed
    IN  <<current_ldl * (1000 - total), total>>

\* lines 50-62: <<projected_ldl, total_reduction>>
calculate_ldl_reduction(current_ldl, pre, discharge, add_ons) ==
    LET looked_up == TherapyReduction(LDL_THERAPIES, discharge)
        statin_reduction == IF pre # "None" THEN looked_up \div 2 ELSE looked_up
        total ==
            statin_reduction
            + (IF "Ezetimibe" \in add_ons THEN 200 ELSE 0)
            + (IF "PCSK9 inhibitor" \in add_ons THEN 600 ELSE 0)
            + (IF "Inclisiran" \in add_ons THEN 500 ELSE 0)
    IN  <<current_ldl * (1000 - total), total>>

VeryHighRisk == "Very High Risk: High-intensity statin, PCSK9 inhibitor, SBP <130 mmHg."
HighRisk == "High Risk: Moderate-intensity statin, SBP <130 mmHg."
ModerateRisk == "Moderate Risk: Lifestyle adherence, annual reassessment."

\* mutant: the thresholds of lines 65 and 67 compared with >
generate_recommendations_strict(risk) ==
    IF risk > 300000000 THEN VeryHighRisk
    ELSE IF risk > 200000000 THEN HighRisk
    ELSE ModerateRisk

\* lines 64-70; final_risk in 1/10^7 percent
generate_recommendations(risk) ==
    IF risk >= 300000000 THEN VeryHighRisk
    ELSE IF risk >= 200000000 THEN HighRisk
    ELSE ModerateRisk

\* lines 81-93: the document, as the fields it prints
create_pdf_report(patient_data, risk_data) ==
    [patient |-> <<patient_data.name, patient_data.age, patient_data.sex>>,
     baseline_risk |-> risk_data.baseline_risk,
     final_risk |-> risk_data.final_risk,
     current_ldl |-> risk_data.current_ldl,
     ldl_target |-> risk_data.ldl_target,
     recommendations |-> risk_data.recommendations]

----------------------------------------------------------------------------
(* The script.  Streamlit runs it top to bottom on every widget            *)
(* interaction; a button returns True only in the run its click caused; a  *)
(* widget that a run does not create loses its value.                      *)

\* a run that no button caused
NoButton == ""
CalculateLabel == "Calculate Treatment Impact"
GenerateLabel == "Generate PDF Report"
NameLabel == "Patient Name for Report"
DownloadLabel == "Download Report"
TreatmentWidgets ==
    {"Current Statin", "Recommended Statin", "Recommended Add-ons",
     "LDL-C Target (mmol/L)", CalculateLabel}

\* st.button(label), line 137 and line 148
Button(label, trig) == trig = label

\* line 148: the condition under which the report is built
ReportRequested(pressed, name) == pressed /\ name # ""

\* the values the widgets return in a run (lines 104-121, 132-135)
Form ==
    [age |-> age, sex |-> sex, diabetes |-> diabetes, smoker |-> smoker,
     cad |-> cad, stroke |-> stroke, pad |-> pad, total_chol |-> total_chol,
     hdl |-> hdl, ldl |-> ldl, sbp |-> sbp, egfr |-> egfr, crp |-> crp,
     pre_statin |-> pre_statin, discharge_statin |-> discharge_statin,
     discharge_add_ons |-> discharge_add_ons, target_ldl |-> target_ldl]

\* lines 113 and 127: the baseline risk of the widget values w
Baseline(w) ==
    LET vasc_count == (IF w.cad THEN 1 ELSE 0) + (IF w.stroke THEN 1 ELSE 0)
                      + (IF w.pad THEN 1 ELSE 0)
    IN  calculate_smart_risk(w.age, w.sex, w.sbp, w.total_chol, w.hdl,
                             w.smoker, w.diabetes, w.egfr, w.crp, vasc_count)

\* lines 129-157: the rest of a run of the script, br being the baseline
\* risk of line 127.  trig is the button whose click caused the run,
\* typed the text the browser holds for the name field, page the widgets
\* of the previous run.
MainLogic(w, br, trig, typed, page) ==
    LET shown == Truthy(br)
        calc == shown /\ Button(CalculateLabel, trig)
        red == calculate_ldl_reduction(w.ldl, w.pre_statin, w.discharge_statin,
                                       w.discharge_add_ons)
        fr == calculate_ldl_effect(br, Float(w.ldl * 1000), Float(red[1]))
        rec == generate_recommendations(fr.val)
        name == IF NameLabel \in page THEN typed ELSE ""
        gen == calc /\ Button(GenerateLabel, trig)
        report == calc /\ ReportRequested(gen, name)
    IN  [trigger |-> trig,
         name_input |-> typed,
         baseline_risk |-> br,
         calc_button |-> calc,
         projected_ldl |-> IF calc THEN Float(red[1]) ELSE None,
         total_reduction |-> IF calc THEN Float(red[2]) ELSE None,
         final_risk |-> IF calc THEN fr ELSE None,
         recommendations |-> IF calc THEN rec ELSE "",
         patient_name |-> IF calc THEN name ELSE "",
         pdf_button |-> gen,
         pdf_bytes |->
             IF report
             THEN <<create_pdf_report(
                       [name |-> name, age |-> w.age, sex |-> w.sex],
                       [baseline_risk |-> br, final_risk |-> fr,
                        current_ldl |-> w.ldl, ldl_target |-> w.target_ldl,
                        recommendations |-> rec])>>
             ELSE <<>>,
         rendered |->
             IF ~shown THEN {}
             ELSE TreatmentWidgets
                  \cup (IF calc THEN {NameLabel, GenerateLabel} ELSE {})
                  \cup (IF report THEN {DownloadLabel} ELSE {}),
         calls |->
             <<"calculate_smart_risk">>
             \o (IF calc
                 THEN <<"calculate_ldl_reduction", "calculate_ldl_effect",
                        "generate_recommendations">>
                 ELSE <<>>)
             \o (IF report THEN <<"create_pdf_report">> ELSE <<>>)]

\* the script runs on the new widget values and replaces the page
Rerun(trig, typed) ==
    \E br \in {Baseline(Form')} :
    \E r \in {MainLogic(Form', br, trig, typed, rendered)} :
        /\ trigger' = r.trigger
        /\ name_input' = r.name_input
        /\ baseline_risk' = r.baseline_risk
        /\ calc_button' = r.calc_button
        /\ projected_ldl' = r.projected_ldl
        /\ total_reduction' = r.total_reduction
        /\ final_risk' = r.final_risk
        /\ recommendations' = r.recommendations
        /\ patient_name' = r.patient_name
        /\ pdf_button' = r.pdf_button
        /\ pdf_bytes' = r.pdf_bytes
        /\ rendered' = r.rendered
        /\ calls' = r.calls
        /\ UNCHANGED <<LDL_THERAPIES, call>>

\* the text in the name field when the user leaves it alone
TextState == IF NameLabel \in rendered THEN patient_name ELSE ""

\* lines 14-19
Catalog ==
    [id \in {"Atorvastatin 20 mg", "Atorvastatin 80 mg", "Rosuvastatin 10 mg",
             "Rosuvastatin 20 mg"} |->
        [reduction |->
            CASE id = "Atorvastatin 20 mg" -> 400
              [] id = "Atorvastatin 80 mg" -> 500
              [] id = "Rosuvastatin 10 mg" -> 450
              [] id = "Rosuvastatin 20 mg" -> 550]]

NoCall == [fn |-> "", args |-> <<>>, ret |-> None]

\* the first run: every widget at its default (lines 104-121, 132-135)
Init ==
    /\ LDL_THERAPIES = Catalog
    /\ age = 65 /\ sex = "Male" /\ diabetes = FALSE /\ smoker = FALSE
    /\ cad = FALSE /\ stroke = FALSE /\ pad = FALSE
    /\ total_chol = 50 /\ hdl = 10 /\ ldl = 35 /\ sbp = 140 /\ egfr = 80
    /\ crp = 20
    /\ pre_statin = "None" /\ discharge_statin = "Atorvastatin 80 mg"
    /\ discharge_add_ons = {} /\ target_ldl = 14
    /\ call = NoCall
    /\ LET r == MainLogic(Form, Baseline(Form), NoButton, "", {})
       IN  /\ trigger = r.trigger
           /\ name_input = r.name_input
           /\ baseline_risk = r.baseline_risk
           /\ calc_button = r.calc_button
           /\ projected_ldl = r.projected_ldl
           /\ total_reduction = r.total_reduction
           /\ final_risk = r.final_risk
           /\ recommendations = r.recommendations
           /\ patient_name = r.patient_name
           /\ pdf_button = r.pdf_button
           /\ pdf_bytes = r.pdf_bytes
           /\ rendered = r.rendered
           /\ calls = r.calls

----------------------------------------------------------------------------
(* Sidebar: each change of a widget reruns the script *)

\* n + 1 values spread over lo..hi
Grid(lo, hi, n) == {lo + (i * (hi - lo)) \div n : i \in 0..n}

AgeGrid == 2
AgeValues == Grid(30, 100, AgeGrid)           \* number_input 30..100
SbpValues == {90, 140, 220}                   \* number_input 90..220
CholValues == {20, 50, 100}                   \* number_input 2.0..10.0
HdlValues == {5, 10, 30}                      \* number_input 0.5..3.0
EgfrValues == {15, 80}                        \* slider 15..120
CrpValues == {20, 200}                        \* number_input 0.1..20.0

SetAge(v) ==
    /\ v # age /\ age' = v
    /\ UNCHANGED <<sex, diabetes, smoker, cad, stroke, pad, total_chol, hdl, ldl,
                   sbp, egfr, crp, pre_statin, discharge_statin,
                   discharge_add_ons, target_ldl>>
    /\ Rerun(NoButton, TextState)

SetSex(v) ==
    /\ v # sex /\ sex' = v
    /\ UNCHANGED <<age, diabetes, smoker, cad, stroke, pad, total_chol, hdl, ldl,
                   sbp, egfr, crp, pre_statin, discharge_statin,
                   discharge_add_ons, target_ldl>>
    /\ Rerun(NoButton, TextState)

ToggleDiabetes ==
    /\ diabetes' = ~diabetes
    /\ UNCHANGED <<age, sex, smoker, cad, stroke, pad, total_chol, hdl, ldl,
                   sbp, egfr, crp, pre_statin, discharge_statin,
                   discharge_add_ons, target_ldl>>
    /\ Rerun(NoButton, TextState)

ToggleSmoker ==
    /\ smoker' = ~smoker
    /\ UNCHANGED <<age, sex, diabetes, cad, stroke, pad, total_chol, hdl, ldl,
                   sbp, egfr, crp, pre_statin, discharge_statin,
                   discharge_add_ons, target_ldl>>
    /\ Rerun(NoButton, TextState)

ToggleCad ==
    /\ cad' = ~cad
    /\ UNCHANGED <<age, sex, diabetes, smoker, stroke, pad, total_chol, hdl, ldl,
                   sbp, egfr, crp, pre_statin, discharge_statin,
                   discharge_add_ons, target_ldl>>
    /\ Rerun(NoButton, TextState)

ToggleStroke ==
    /\ stroke' = ~stroke
    /\ UNCHANGED <<age, sex, diabetes, smoker, cad, pad, total_chol, hdl, ldl,
                   sbp, egfr, crp, pre_statin, discharge_statin,
                   discharge_add_ons, target_ldl>>
    /\ Rerun(NoButton, TextState)

TogglePad ==
    /\ pad' = ~pad
    /\ UNCHANGED <<age, sex, diabetes, smoker, cad, stroke, total_chol, hdl, ldl,
                   sbp, egfr, crp, pre_statin, discharge_statin,
                   discharge_add_ons, target_ldl>>
    /\ Rerun(NoButton, TextState)

SetTotalChol(v) ==
    /\ v # total_chol /\ total_chol' = v
    /\ UNCHANGED <<age, sex, diabetes, smoker, cad, stroke, pad, hdl, ldl,
                   sbp, egfr, crp, pre_statin, discharge_statin,
                   discharge_add_ons, target_ldl>>
    /\ Rerun(NoButton, TextState)

SetHdl(v) ==
    /\ v # hdl /\ hdl' = v
    /\ UNCHANGED <<age, sex, diabetes, smoker, cad, stroke, pad, total_chol, ldl,
                   sbp, egfr, crp, pre_statin, discharge_statin,
                   discharge_add_ons, target_ldl>>
    /\ Rerun(NoButton, TextState)

SetSbp(v) ==
    /\ v # sbp /\ sbp' = v
    /\ UNCHANGED <<age, sex, diabetes, smoker, cad, stroke, pad, total_chol, hdl,
                   ldl, egfr, crp, pre_statin, discharge_statin,
                   discharge_add_ons, target_ldl>>
    /\ Rerun(NoButton, TextState)

SetEgfr(v) ==
    /\ v # egfr /\ egfr' = v
    /\ UNCHANGED <<age, sex, diabetes, smoker, cad, stroke, pad, total_chol, hdl,
                   ldl, sbp, crp, pre_statin, discharge_statin,
                   discharge_add_ons, target_ldl>>
    /\ Rerun(NoButton, TextState)

SetCrp(v) ==
    /\ v # crp /\ crp' = v
    /\ UNCHANGED <<age, sex, diabetes, smoker, cad, stroke, pad, total_chol, hdl,
                   ldl, sbp, egfr, pre_statin, discharge_statin,
                   discharge_add_ons, target_ldl>>
    /\ Rerun(NoButton, TextState)

NextRisk ==
    \/ \E v \in AgeValues : SetAge(v)
    \/ \E v \in {"Male", "Female"} : SetSex(v)
    \/ ToggleDiabetes
    \/ ToggleSmoker
    \/ ToggleCad
    \/ ToggleStroke
    \/ TogglePad
    \/ \E v \in CholValues : SetTotalChol(v)
    \/ \E v \in HdlValues : SetHdl(v)
    \/ \E v \in SbpValues : SetSbp(v)
    \/ \E v \in EgfrValues : SetEgfr(v)
    \/ \E v \in CrpValues : SetCrp(v)

\* the patient's profile is edited in the sidebar
SpecRisk == Init /\ [][NextRisk]_vars

----------------------------------------------------------------------------
(* Treatment plan and report *)

LdlGrid == 1
LdlValues == Grid(5, 60, LdlGrid) \cup {35}   \* number_input 0.5..6.0
\* ["None"] + list(LDL_THERAPIES.keys()), lines 132-133
StatinOptions == {"None"} \cup DOMAIN LDL_THERAPIES
AddOnOptions == {"Ezetimibe", "PCSK9 inhibitor", "Inclisiran"}   \* line 134
Names == {"", "Ann Lee"}
\* what the name field can hold when the next run starts
Typed == IF NameLabel \in rendered THEN Names ELSE {""}

SetLdl(v) ==
    /\ v # ldl /\ ldl' = v
    /\ UNCHANGED <<age, sex, diabetes, smoker, cad, stroke, pad, total_chol, hdl,
                   sbp, egfr, crp, pre_statin, discharge_statin,
                   discharge_add_ons, target_ldl>>
    /\ Rerun(NoButton, TextState)

SetPreStatin(v) ==
    /\ "Current Statin" \in rendered
    /\ v # pre_statin /\ pre_statin' = v
    /\ UNCHANGED <<age, sex, diabetes, smoker, cad, stroke, pad, total_chol, hdl,
                   ldl, sbp, egfr, crp, discharge_statin, discharge_add_ons,
                   target_ldl>>
    /\ Rerun(NoButton, TextState)

SetDischargeStatin(v) ==
    /\ "Recommended Statin" \in rendered
    /\ v # discharge_statin /\ discharge_statin' = v
    /\ UNCHANGED <<age, sex, diabetes, smoker, cad, stroke, pad, total_chol, hdl,
                   ldl, sbp, egfr, crp, pre_statin, discharge_add_ons,
                   target_ldl>>
    /\ Rerun(NoButton, TextState)

ToggleAddOn(a) ==
    /\ "Recommended Add-ons" \in rendered
    /\ discharge_add_ons' =
          IF a \in discharge_add_ons THEN discharge_add_ons \ {a}
          ELSE discharge_add_ons \cup {a}
    /\ UNCHANGED <<age, sex, diabetes, smoker, cad, stroke, pad, total_chol, hdl,
                   ldl, sbp, egfr, crp, pre_statin, discharge_statin,
                   target_ldl>>
    /\ Rerun(NoButton, TextState)

\* the user clicks "Calculate Treatment Impact"
ClickCalculate(typed) ==
    /\ CalculateLabel \in rendered
    /\ UNCHANGED widgets
    /\ Rerun(CalculateLabel, typed)

\* the user types a name and leaves the field
EnterName(typed) ==
    /\ NameLabel \in rendered
    /\ typed # patient_name
    /\ UNCHANGED widgets
    /\ Rerun(NoButton, typed)

\* the user clicks "Generate PDF Report", typed being in the name field
ClickGenerate(typed) ==
    /\ GenerateLabel \in rendered
    /\ UNCHANGED widgets
    /\ Rerun(GenerateLabel, typed)

Report ==
    \/ \E n \in Typed : ClickCalculate(n)
    \/ \E n \in Typed : EnterName(n)
    \/ \E n \in Typed : ClickGenerate(n)

Plan ==
    \/ \E v \in LdlValues : SetLdl(v)
    \/ \E v \in StatinOptions : SetPreStatin(v)
    \/ \E v \in StatinOptions : SetDischargeStatin(v)
    \/ \E a \in AddOnOptions : ToggleAddOn(a)

NextTreat ==
    \/ \E v \in AgeValues : SetAge(v)
    \/ Plan
    \/ Report

\* a treatment plan is entered, its impact calculated and a report asked for
SpecTreat == Init /\ [][NextTreat]_vars

----------------------------------------------------------------------------
(* The script on a profile the form would not let through: the widgets     *)
(* bound age to 30..100 and hs-CRP to 0.1..20.0, calculate_smart_risk      *)
(* itself does not.                                                        *)

SuppliedAges == {65, 12000}
SuppliedCrps == {20, -5, -10, -15}

\* a run whose baseline is falsy creates no treatment widget, and the
\* widgets come back with their defaults (lines 132-134)
SupplyProfile(a, c) ==
    /\ <<a, c>> # <<age, crp>>
    /\ age' = a /\ crp' = c
    /\ UNCHANGED <<sex, diabetes, smoker, cad, stroke, pad, total_chol, hdl, ldl,
                   sbp, egfr, target_ldl>>
    /\ \E kept \in {Truthy(Baseline([Form EXCEPT !.age = a, !.crp = c]))} :
          /\ pre_statin' = IF kept THEN pre_statin ELSE "None"
          /\ discharge_statin' =
                IF kept THEN discharge_statin ELSE "Atorvastatin 80 mg"
          /\ discharge_add_ons' = IF kept THEN discharge_add_ons ELSE {}
    /\ Rerun(NoButton, TextState)

NextSupplied ==
    \/ \E a \in SuppliedAges, c \in SuppliedCrps : SupplyProfile(a, c)
    \/ \E v \in StatinOptions : SetDischargeStatin(v)
    \/ \E a \in AddOnOptions : ToggleAddOn(a)
    \/ Report

SpecSupplied == Init /\ [][NextSupplied]_vars

----------------------------------------------------------------------------
(* The calculation functions called directly *)

RiskArgs ==
    {30, 65, 12000} \X {"Male", "Female"} \X {140} \X {50} \X {10} \X {FALSE}
    \X BOOLEAN \X {80} \X {-20, -10, -5, 20} \X {0, 3}
EffectRisks == {Float(10), Float(289), Float(990), None, Str("28.9")}
EffectLdls == {Float(35000), Float(5000), None, Str("3.5")}
EffectFinals ==
    {Float(15750), Float(35000), Float(5000), Float(-29750), Float(40000),
     Str("1.6")}
TherapyIds == StatinOptions \cup {"Simvastatin 40 mg", ""}
RecommendRisks ==
    {0, 10000000, 199999999, 200000000, 200000001, 299999999, 300000000,
     300000001, 990000000}

CallSmartRisk(t) ==
    /\ call' = [fn |-> "calculate_smart_risk", args |-> t,
                ret |-> calculate_smart_risk(t[1], t[2], t[3], t[4], t[5], t[6],
                                             t[7], t[8], t[9], t[10])]
    /\ UNCHANGED <<LDL_THERAPIES, widgets, run>>

CallLdlEffect(risk, baseline_ldl, final_ldl) ==
    /\ call' = [fn |-> "calculate_ldl_effect",
                args |-> <<risk, baseline_ldl, final_ldl>>,
                ret |-> calculate_ldl_effect(risk, baseline_ldl, final_ldl)]
    /\ UNCHANGED <<LDL_THERAPIES, widgets, run>>

CallLdlReduction(current_ldl, pre, discharge, add_ons) ==
    /\ call' = [fn |-> "calculate_ldl_reduction",
                args |-> <<current_ldl, pre, discharge, add_ons>>,
                ret |-> calculate_ldl_reduction(current_ldl, pre, discharge,
                                                add_ons)]
    /\ UNCHANGED <<LDL_THERAPIES, widgets, run>>

CallRecommendations(risk) ==
    /\ call' = [fn |-> "generate_recommendations", args |-> <<risk>>,
                ret |-> generate_recommendations(risk)]
    /\ UNCHANGED <<LDL_THERAPIES, widgets, run>>

NextCalls ==
    \/ \E t \in RiskArgs : CallSmartRisk(t)
    \/ \E r \in EffectRisks, b \in EffectLdls, f \in EffectFinals :
          CallLdlEffect(r, b, f)
    \/ \E l \in LdlValues, p \in TherapyIds, d \in TherapyIds,
          a \in SUBSET AddOnOptions : CallLdlReduction(l, p, d, a)
    \/ \E r \in RecommendRisks : CallRecommendations(r)

SpecCalls == Init /\ [][NextCalls]_vars

----------------------------------------------------------------------------
(* Properties *)

VascCount ==
    (IF cad THEN 1 ELSE 0) + (IF stroke THEN 1 ELSE 0) + (IF pad THEN 1 ELSE 0)

InRange(r) == 10 <= r.val /\ r.val <= 990

\* age and hs-CRP values outside what the form accepts
OutsideAges == {0, 150}
OutsideCrps == {-5, 500}

\* C1: on every profile within the form's ranges calculate_smart_risk
\* returns a number between 1.0 and 99.0; and whatever it returns other
\* than None, also on an age or an hs-CRP outside the form's range, lies
\* between 1.0 and 99.0.
C1_BaselineInRange ==
    /\ IsNumber(baseline_risk) /\ InRange(baseline_risk)
    /\ \A t \in (OutsideAges \X {crp}) \cup ({age} \X OutsideCrps) :
          LET r == calculate_smart_risk(t[1], sex, sbp, total_chol, hdl, smoker,
                                        diabetes, egfr, t[2], VascCount)
          IN  IsNumber(r) => InRange(r)

\* the profile whose unclamped risk rounds to 100.0
C1_Witness ==
    /\ age = 100 /\ sbp = 220 /\ total_chol = 100 /\ hdl = 5 /\ egfr = 15
    /\ VascCount = 3
    /\ baseline_risk = Float(990)

\* C8: a step that raises age, SBP, total cholesterol or the vascular
\* disease count, or switches smoker or diabetes on, and changes nothing
\* else, never lowers the baseline risk; a step that raises HDL never
\* raises it.
C8_Monotone ==
    [][/\ (\/ age' > age
           \/ sbp' > sbp
           \/ total_chol' > total_chol
           \/ VascCount' > VascCount
           \/ (smoker' /\ ~smoker)
           \/ (diabetes' /\ ~diabetes))
          => baseline_risk'.val >= baseline_risk.val
       /\ hdl' > hdl => baseline_risk'.val <= baseline_risk.val]_vars

\* a profile reached by raising risk factors whose risk is not clamped
C8_Witness ==
    /\ age = 100 /\ smoker /\ diabetes /\ hdl = 30 /\ VascCount = 1
    /\ baseline_risk.val > 10 /\ baseline_risk.val < 990

\* C2: generate_recommendations answers every risk with exactly one tier:
\* Very High Risk from 30 up, High Risk from 20 up to but not including 30,
\* Moderate Risk below 20.
C2_Tiers ==
    call.fn = "generate_recommendations" =>
        LET risk == call.args[1]
        IN  /\ call.ret \in {VeryHighRisk, HighRisk, ModerateRisk}
            /\ call.ret = VeryHighRisk <=> risk >= 300000000
            /\ call.ret = HighRisk <=> (200000000 <= risk /\ risk < 300000000)
            /\ call.ret = ModerateRisk <=> risk < 200000000

\* exactly 20 percent is High Risk
C2_Witness ==
    /\ call.fn = "generate_recommendations"
    /\ call.args[1] = 200000000
    /\ call.ret = HighRisk

\* the add-on increments of C3, in tenths of a percent
AddOnSum(add_ons) ==
    (IF "Ezetimibe" \in add_ons THEN 200 ELSE 0)
    + (IF "PCSK9 inhibitor" \in add_ons THEN 600 ELSE 0)
    + (IF "Inclisiran" \in add_ons THEN 500 ELSE 0)

\* C3: the total reduction is the catalog reduction of the prescribed
\* therapy, halved exactly when the current therapy is not "None", plus 20,
\* 60 and 50 for Ezetimibe, PCSK9 inhibitor and Inclisiran (never halved,
\* never capped); the projected LDL is currentLdl * (1 - total/100).
\* 3.5 / "None" / Rosuvastatin 20 mg / {} gives (1.575, 55), and with any
\* other current therapy (2.5375, 27.5).
C3_Reduction ==
    call.fn = "calculate_ldl_reduction" =>
        LET current_ldl == call.args[1]
            pre == call.args[2]
            discharge == call.args[3]
            add_ons == call.args[4]
            s == IF discharge \in DOMAIN Catalog
                 THEN IF pre = "None" THEN 2 * Catalog[discharge].reduction
                      ELSE Catalog[discharge].reduction
                 ELSE 0
            example == current_ldl = 35 /\ discharge = "Rosuvastatin 20 mg"
                       /\ add_ons = {}
        IN  /\ 2 * call.ret[2] = s + 2 * AddOnSum(add_ons)
            /\ call.ret[1] = current_ldl * (1000 - call.ret[2])
            /\ example /\ pre = "None" => call.ret = <<15750, 550>>
            /\ example /\ pre # "None" => call.ret = <<25375, 275>>

\* on a current therapy, the statin is halved and Ezetimibe is not
C3_Witness ==
    /\ call.fn = "calculate_ldl_reduction"
    /\ call.args = <<35, "Atorvastatin 20 mg", "Rosuvastatin 20 mg", {"Ezetimibe"}>>
    /\ call.ret = <<18375, 475>>

\* C4: whatever the form supplies, the total reduction is below 100 percent
\* and the projected LDL is not negative.
C4_ProjectedLdlNonNegative ==
    calc_button => total_reduction.val < 1000 /\ projected_ldl.val >= 0

\* the supplied profiles on which calculate_smart_risk raises
Fails == crp + 10 <= 0 \/ age = 12000

\* C5: when the baseline computation fails the result is None and the run
\* calls nothing downstream of calculate_smart_risk; a baseline that was
\* computed is at least 1.0 and passes the guard: the treatment widgets are
\* on the page, and a click on Calculate runs the treatment stage.
C5_FailureStopsRun ==
    /\ Fails <=> baseline_risk = None
    /\ baseline_risk = None =>
          /\ calls = <<"calculate_smart_risk">>
          /\ ~calc_button /\ ~pdf_button
          /\ final_risk = None /\ recommendations = "" /\ pdf_bytes = <<>>
          /\ rendered = {}
    /\ baseline_risk # None =>
          /\ baseline_risk.val >= 10
          /\ TreatmentWidgets \subseteq rendered
          /\ trigger = CalculateLabel =>
                /\ calc_button
                /\ IsNumber(final_risk)
                /\ SubSeq(calls, 1, 4) =
                      <<"calculate_smart_risk", "calculate_ldl_reduction",
                        "calculate_ldl_effect", "generate_recommendations">>

\* math.log has raised on hs-CRP = -1.0
C5_Witness ==
    /\ crp = -10
    /\ baseline_risk = None
    /\ calls = <<"calculate_smart_risk">>

\* C6: calculate_ldl_effect raises nothing; when an operand is not a number
\* it returns its baseline_risk argument unchanged; given a numeric
\* baseline it always returns a number.
C6_FailOpen ==
    call.fn = "calculate_ldl_effect" =>
        LET risk == call.args[1]
            numeric == \A i \in 1..3 : call.args[i].type = "float"
        IN  /\ call.ret.type # "exception"
            /\ ~numeric /\ risk.type = "float" =>
                  call.ret = Float(risk.val * 1000000)
            /\ ~numeric /\ risk.type # "float" => call.ret = risk
            /\ risk.type = "float" => call.ret.type = "float"

\* the LDL argument is a string
C6_Witness ==
    /\ call.fn = "calculate_ldl_effect"
    /\ call.args = <<Float(289), Str("3.5"), Float(15750)>>
    /\ call.ret = Float(289000000)

\* C7: a prescribed therapy that is no key of the catalog contributes no
\* reduction: with no add-ons the total is 0 and the projected LDL is the
\* current LDL, whatever the current therapy; and the catalog never changes.
C7_UnknownTherapy ==
    /\ LDL_THERAPIES = Catalog
    /\ (/\ call.fn = "calculate_ldl_reduction"
        /\ call.args[3] \notin DOMAIN Catalog
        /\ call.args[4] = {})
       => call.ret = <<call.args[1] * 1000, 0>>

\* an unknown prescription on top of a current therapy
C7_Witness ==
    /\ call.fn = "calculate_ldl_reduction"
    /\ call.args = <<35, "Atorvastatin 20 mg", "Simvastatin 40 mg", {}>>
    /\ call.ret = <<35000, 0>>

\* C9: in a run that computes the treatment impact,
\* 0.4 * baseline_risk <= final_risk <= baseline_risk.
C9_FinalRiskBounds ==
    calc_button =>
        /\ baseline_risk.val * 400000 <= final_risk.val
        /\ final_risk.val <= baseline_risk.val * 1000000

\* a total reduction above 100 percent, the risk reduction capped at 60
C9_Witness ==
    /\ calc_button
    /\ total_reduction.val > 1000
    /\ final_risk.val = baseline_risk.val * 400000

\* C10: the run caused by a click on "Generate PDF Report" with a name in
\* the name field calls create_pdf_report and offers the download.
C10_ReportReachable ==
    trigger = GenerateLabel /\ name_input # "" =>
        /\ Len(pdf_bytes) = 1
        /\ DownloadLabel \in rendered

====
